---- MODULE Spec2Model ----
(***************************************************************************)
(* Model of the LOST repository glue code:                                 *)
(*   networks.py                   get_model, ResNet50Bottom, vgg16Bottom  *)
(*   tools/train_net_for_LOST_OD.py dataset registration, Trainer, main    *)
(*                                                                         *)
(* Strings that the code searches ("resnet" in arch) or concatenates       *)
(* (k + "_TTA", os.path.join) are sequences of string pieces; a substring  *)
(* test is membership of a piece, a concatenation is \o.                   *)
(***************************************************************************)
EXTENDS Integers, Sequences, FiniteSets, TLC

VARIABLES
    \* ---- networks.get_model ----
    gmArgs,        \* the arguments of the running get_model call
    gmPc,          \* position inside get_model
    model,         \* local variable `model`
    original,      \* the network as torchvision / dino constructed it
    key_,          \* local variable `key_`
    prefix,        \* local variable `prefix`
    loadCalls,     \* calls made to utils.load_pretrained_weights
    exc,           \* exception that ended the call, or None
    \* ---- tools/train_net_for_LOST_OD.py, module level ----
    spc,             \* position of the module's top-level code
    DatasetCatalog,  \* detectron2.data.DatasetCatalog: name -> dataset function
    MetadataCatalog, \* detectron2.data.MetadataCatalog: name -> Metadata
    opened,          \* files opened so far, in order
    loaded,          \* last dataset function call and what it returned
    built,           \* last Trainer.build_evaluator call and its outcome
    \* ---- tools/train_net_for_LOST_OD.py, main ----
    mpc,             \* position inside main
    args,            \* command line arguments
    cfg,             \* the frozen config
    env,             \* this process: GPUs of the machine, rank
    res,             \* local variable `res` / the value main returns
    plainRes,        \* what Trainer.test(cfg, model) returned
    ttaRes,          \* what cls.test returned inside test_with_TTA (line 204)
    ttaEvaluators,   \* the evaluators test_with_TTA built
    trace,           \* the calls main made, in order
    hooks            \* hooks registered on the trainer by main

gmVars == <<gmArgs, gmPc, model, original, key_, prefix, loadCalls, exc>>

regVars == <<spc, DatasetCatalog, MetadataCatalog>>

useVars == <<opened, loaded, built>>

mainVars == <<mpc, args, cfg, env, res, plainRes, ttaRes, ttaEvaluators, trace, hooks>>

None == "None"

\* a module that carries no constructor option
NoOpt == [kind |-> "none"]

\* `model` before it is assigned
NoModel == [name |-> None]

\* ------------------------------------------------------------------------
\* Strings
\* ------------------------------------------------------------------------

\* Python `sub in s` for a piece `sub` of the piecewise string s
In(sub, s) == \E i \in DOMAIN s : s[i] = sub

\* ------------------------------------------------------------------------
\* torch.nn modules: a tree of records
\* ------------------------------------------------------------------------

\* a freshly constructed module: training mode, parameters require grad
Module(name, opt, children, params) ==
    [name |-> name, opt |-> opt, children |-> children,
     params |-> [p \in params |-> TRUE], training |-> TRUE]

Layer(name, params) == Module(name, NoOpt, <<>>, params)

Sequential(children) == Module("Sequential", NoOpt, children, {})

\* Python list slices l[:-2] and l[:-1]
ButLast(n, l) == IF Len(l) <= n THEN <<>> ELSE SubSeq(l, 1, Len(l) - n)

\* torchvision.models.resnet.resnet50
resnet50(pretrained, replace_stride_with_dilation) ==
    Module("ResNet", [pretrained |-> pretrained],
           << Layer("conv1", {"weight"}),
              Layer("bn1", {"weight", "bias"}),
              Layer("relu", {}),
              Layer("maxpool", {}),
              Module("layer1", [dilate |-> FALSE], <<>>, {"weight"}),
              Module("layer2", [dilate |-> replace_stride_with_dilation[1]], <<>>, {"weight"}),
              Module("layer3", [dilate |-> replace_stride_with_dilation[2]], <<>>, {"weight"}),
              Module("layer4", [dilate |-> replace_stride_with_dilation[3]], <<>>, {"weight"}),
              Layer("avgpool", {}),
              Layer("fc", {"weight", "bias"}) >>,
           {})

\* torchvision.models.vgg.vgg16 (one convolution shown per block)
VggFeatureLayers ==
    << Layer("conv1", {"weight", "bias"}), Layer("relu1", {}), Layer("pool1", {}),
       Layer("conv2", {"weight", "bias"}), Layer("relu2", {}), Layer("pool2", {}),
       Layer("conv3", {"weight", "bias"}), Layer("relu3", {}), Layer("pool3", {}),
       Layer("conv4", {"weight", "bias"}), Layer("relu4", {}), Layer("pool4", {}),
       Layer("conv5", {"weight", "bias"}), Layer("relu5", {}), Layer("pool5", {}) >>

vgg16(pretrained) ==
    Module("VGG", [pretrained |-> pretrained],
           << Sequential(VggFeatureLayers),
              Layer("avgpool", {}),
              Sequential(<< Layer("fc6", {"weight", "bias"}),
                            Layer("fc7", {"weight", "bias"}),
                            Layer("fc8", {"weight", "bias"}) >>) >>,
           {})

\* dino.vision_transformer: the factories found in vits.__dict__
VitFactories == {<<"vit_tiny">>, <<"vit_small">>, <<"vit_base">>}

VisionTransformer(arch, patch_size, num_classes) ==
    Module("VisionTransformer",
           [arch |-> arch, patch_size |-> patch_size, num_classes |-> num_classes],
           << Layer("patch_embed", {"weight", "bias"}),
              Layer("blocks", {"weight", "bias"}),
              Layer("norm", {"weight", "bias"}),
              Layer("head", {}) >>,
           {"cls_token", "pos_embed"})

RECURSIVE AllFrozen(_)
\* every p in m.parameters() has requires_grad = False
AllFrozen(m) ==
    /\ \A p \in DOMAIN m.params : m.params[p] = FALSE
    /\ \A i \in DOMAIN m.children : AllFrozen(m.children[i])

RECURSIVE NumParams(_, _)
\* number of parameters under the first i children of m, plus m's own
NumParams(m, i) ==
    IF i = 0 THEN Cardinality(DOMAIN m.params)
    ELSE NumParams(m.children[i], Len(m.children[i].children)) + NumParams(m, i - 1)

RECURSIVE AllEval(_)
\* m and every submodule are in eval mode
AllEval(m) ==
    /\ m.training = FALSE
    /\ \A i \in DOMAIN m.children : AllEval(m.children[i])

\* names of the direct children, in order
ChildNames(m) == [i \in DOMAIN m.children |-> m.children[i].name]

\* ------------------------------------------------------------------------
\* networks.py
\* ------------------------------------------------------------------------

Ok(v) == [ok |-> TRUE, value |-> v]
Raise(e) == [ok |-> FALSE, exc |-> e]

\* class ResNet50Bottom: features = Sequential(children()[:-2])
ResNet50Bottom(original_model) ==
    Module("ResNet50Bottom", NoOpt,
           << Sequential(ButLast(2, original_model.children)) >>, {})

\* class vgg16Bottom: features = Sequential(children()[:-2]), then
\* features = Sequential(features[0][:-1])
vgg16Bottom(original_model) ==
    LET features == Sequential(ButLast(2, original_model.children))
    IN  IF Len(features.children) = 0 THEN Raise("IndexError")
        ELSE IF features.children[1].name # "Sequential" THEN Raise("TypeError")
        ELSE Ok(Module("vgg16Bottom", NoOpt,
                       << Sequential(ButLast(1, features.children[1].children)) >>, {}))

\* dilation replaces stride from the first stage forwards
ReplaceStrideWithDilationForward(resnet_dilate) ==
    IF resnet_dilate = 1 THEN Ok(<<FALSE, FALSE, FALSE>>)
    ELSE IF resnet_dilate = 2 THEN Ok(<<TRUE, FALSE, FALSE>>)
    ELSE IF resnet_dilate = 4 THEN Ok(<<TRUE, TRUE, FALSE>>)
    ELSE Raise("UnboundLocalError")

\* get_model lines 11-16: the if/elif chain leaves the variable unbound
\* for any other value
ReplaceStrideWithDilation(resnet_dilate) ==
    IF resnet_dilate = 1 THEN Ok(<<FALSE, FALSE, FALSE>>)
    ELSE IF resnet_dilate = 2 THEN Ok(<<FALSE, FALSE, TRUE>>)
    ELSE IF resnet_dilate = 4 THEN Ok(<<FALSE, TRUE, TRUE>>)
    ELSE Raise("UnboundLocalError")

\* get_model lines 10-34
BuildBackbone(arch, patch_size, resnet_dilate) ==
    IF In("resnet", arch) THEN
        LET rswd == ReplaceStrideWithDilation(resnet_dilate)
        IN  IF ~rswd.ok THEN rswd
            ELSE Ok(resnet50(In("imagenet", arch), rswd.value))
    ELSE IF In("vgg16", arch) THEN Ok(vgg16(In("imagenet", arch)))
    ELSE IF arch \in VitFactories THEN Ok(VisionTransformer(arch, patch_size, 0))
    ELSE Raise("KeyError")

\* freezes the parameters the module owns itself, not those of its layers
FreezeParamsShallow(m) ==
    [m EXCEPT !.params = [p \in DOMAIN m.params |-> FALSE]]

RECURSIVE FreezeParams(_)
\* get_model lines 36-37
FreezeParams(m) ==
    [m EXCEPT !.params = [p \in DOMAIN m.params |-> FALSE],
              !.children = [i \in DOMAIN m.children |-> FreezeParams(m.children[i])]]

\* tests "mae" before "soco" / "pixpro"
KeyAndPrefixMaeFirst(pretrained_weights, key) ==
    IF In("mae", pretrained_weights)
    THEN [key_ |-> <<"model">>, prefix |-> None]
    ELSE IF In("soco", pretrained_weights) \/ In("pixpro", pretrained_weights)
    THEN [key_ |-> <<"model">>, prefix |-> "module.encoder."]
    ELSE [key_ |-> key,
          prefix |-> IF In("student", key) THEN "module.backbone." ELSE "backbone."]

\* get_model lines 53-62
KeyAndPrefix(pretrained_weights, key) ==
    IF In("soco", pretrained_weights) \/ In("pixpro", pretrained_weights)
    THEN [key_ |-> <<"model">>, prefix |-> "module.encoder."]
    ELSE IF ~In("mae", pretrained_weights)
    THEN [key_ |-> key,
          prefix |-> IF In("student", key) THEN "module.backbone." ELSE "backbone."]
    ELSE [key_ |-> <<"model">>, prefix |-> None]

\* get_model lines 64-67 and again lines 71-74
Truncate(arch, m) ==
    IF In("resnet", arch) THEN Ok(ResNet50Bottom(m))
    ELSE IF In("vgg16", arch) THEN vgg16Bottom(m)
    ELSE Ok(m)

RECURSIVE Eval(_)
\* nn.Module.eval()
Eval(m) ==
    [m EXCEPT !.training = FALSE,
              !.children = [i \in DOMAIN m.children |-> Eval(m.children[i])]]

\* get_model as a whole (lines 9-77): how the call ends, what it returns or
\* holds when it raises, and the calls it made to load_pretrained_weights
GetModel(arch, patch_size, resnet_dilate, pretrained_weights, key) ==
    LET b == BuildBackbone(arch, patch_size, resnet_dilate)
        load == ~In("imagenet", arch)
        kp == KeyAndPrefix(pretrained_weights, key)
    IN  IF ~b.ok
        THEN [pc |-> "raised", exc |-> b.exc, model |-> NoModel, calls |-> <<>>]
        ELSE
        LET w1 == IF load THEN Truncate(arch, FreezeParams(b.value))
                  ELSE Ok(FreezeParams(b.value))
        IN  IF ~w1.ok
            THEN [pc |-> "raised", exc |-> w1.exc,
                  model |-> FreezeParams(b.value), calls |-> <<>>]
            ELSE
            LET calls == IF load
                         THEN << [model |-> w1.value.name,
                                  pretrained_weights |-> pretrained_weights,
                                  key |-> kp.key_, prefix |-> kp.prefix] >>
                         ELSE <<>>
                w2 == Truncate(arch, w1.value)
            IN  IF ~w2.ok
                THEN [pc |-> "raised", exc |-> w2.exc, model |-> w1.value, calls |-> calls]
                ELSE [pc |-> "returned", exc |-> None,
                      model |-> Eval(w2.value), calls |-> calls]

\* ------------------------------------------------------------------------
\* Inputs of get_model
\* ------------------------------------------------------------------------

Archs ==
    { <<"resnet", "50">>, <<"resnet", "50", "_", "imagenet">>,
      <<"vgg16">>, <<"vgg16", "_", "imagenet">>,
      <<"vit_small">>, <<"vit_base">>, <<"vit_small", "_", "imagenet">>, <<"deit">> }

PatchSizes == {8, 16}

MaxDilate == 4
Dilates == 0..MaxDilate

PretrainedWeights ==
    { <<"dino", ".pth">>, <<"soco", ".pth">>, <<"pixpro", ".pth">>,
      <<"mae", ".pth">>, <<"soco", "_", "mae", ".pth">> }

Keys == { <<"teacher">>, <<"student">>, <<"model">> }

GmInit ==
    /\ gmArgs \in [arch : Archs, patch_size : PatchSizes, resnet_dilate : Dilates,
                   pretrained_weights : PretrainedWeights, key : Keys]
    /\ gmPc = "build"
    /\ model = NoModel
    /\ original = NoModel
    /\ key_ = <<>>
    /\ prefix = None
    /\ loadCalls = <<>>
    /\ exc = None

\* lines 10-34
GmBuild ==
    /\ gmPc = "build"
    /\ LET r == BuildBackbone(gmArgs.arch, gmArgs.patch_size, gmArgs.resnet_dilate)
       IN  IF r.ok
           THEN /\ model' = r.value
                /\ original' = r.value
                /\ gmPc' = "freeze"
                /\ exc' = exc
           ELSE /\ exc' = r.exc
                /\ gmPc' = "raised"
                /\ UNCHANGED <<model, original>>
    /\ UNCHANGED <<gmArgs, key_, prefix, loadCalls>>
    /\ UNCHANGED <<regVars, useVars, mainVars>>

\* lines 36-37, and the test of line 40
GmFreeze ==
    /\ gmPc = "freeze"
    /\ model' = FreezeParams(model)
    /\ gmPc' = IF ~In("imagenet", gmArgs.arch) THEN "prefix" ELSE "truncate"
    /\ UNCHANGED <<gmArgs, original, key_, prefix, loadCalls, exc>>
    /\ UNCHANGED <<regVars, useVars, mainVars>>

\* lines 52-62: model.cuda() moves the parameters in place
GmPrefix ==
    /\ gmPc = "prefix"
    /\ LET kp == KeyAndPrefix(gmArgs.pretrained_weights, gmArgs.key)
       IN  /\ key_' = kp.key_
           /\ prefix' = kp.prefix
    /\ gmPc' = "wrap"
    /\ UNCHANGED <<gmArgs, model, original, loadCalls, exc>>
    /\ UNCHANGED <<regVars, useVars, mainVars>>

\* lines 64-67
GmWrap ==
    /\ gmPc = "wrap"
    /\ LET r == Truncate(gmArgs.arch, model)
       IN  IF r.ok
           THEN /\ model' = r.value
                /\ gmPc' = "load"
                /\ exc' = exc
           ELSE /\ exc' = r.exc
                /\ gmPc' = "raised"
                /\ model' = model
    /\ UNCHANGED <<gmArgs, original, key_, prefix, loadCalls>>
    /\ UNCHANGED <<regVars, useVars, mainVars>>

\* line 68: utils.load_pretrained_weights copies checkpoint values into the
\* parameters of `model`; the call is recorded with its arguments
GmLoad ==
    /\ gmPc = "load"
    /\ loadCalls' = Append(loadCalls,
                           [model |-> model.name,
                            pretrained_weights |-> gmArgs.pretrained_weights,
                            key |-> key_, prefix |-> prefix])
    /\ gmPc' = "truncate"
    /\ UNCHANGED <<gmArgs, model, original, key_, prefix, exc>>
    /\ UNCHANGED <<regVars, useVars, mainVars>>

\* lines 71-74
GmTruncate ==
    /\ gmPc = "truncate"
    /\ LET r == Truncate(gmArgs.arch, model)
       IN  IF r.ok
           THEN /\ model' = r.value
                /\ gmPc' = "eval"
                /\ exc' = exc
           ELSE /\ exc' = r.exc
                /\ gmPc' = "raised"
                /\ model' = model
    /\ UNCHANGED <<gmArgs, original, key_, prefix, loadCalls>>
    /\ UNCHANGED <<regVars, useVars, mainVars>>

\* lines 76-77
GmEval ==
    /\ gmPc = "eval"
    /\ model' = Eval(model)
    /\ gmPc' = "returned"
    /\ UNCHANGED <<gmArgs, original, key_, prefix, loadCalls, exc>>
    /\ UNCHANGED <<regVars, useVars, mainVars>>

GmNext == GmBuild \/ GmFreeze \/ GmPrefix \/ GmWrap \/ GmLoad \/ GmTruncate \/ GmEval

\* ------------------------------------------------------------------------
\* tools/train_net_for_LOST_OD.py: dataset registration
\* ------------------------------------------------------------------------

\* the PASCAL VOC class names of detectron2's built-in VOC datasets
VocClasses ==
    << "aeroplane", "bicycle", "bird", "boat", "bottle", "bus", "car", "cat",
       "chair", "cow", "diningtable", "dog", "horse", "motorbike", "person",
       "pottedplant", "sheep", "sofa", "train", "tvmonitor" >>

BuiltinVoc(name, year, split) ==
    [name |-> name, thing_classes |-> VocClasses, year |-> year, split |-> split,
     evaluator_type |-> "pascal_voc"]

\* detectron2's built-in metadata, as far as this script reads it: the VOC
\* datasets it copies from, and one dataset per evaluator_type
BuiltinMetadata ==
    [ voc_2007_trainval |-> BuiltinVoc("voc_2007_trainval", 2007, "trainval"),
      voc_2007_test |-> BuiltinVoc("voc_2007_test", 2007, "test"),
      voc_2012_trainval |-> BuiltinVoc("voc_2012_trainval", 2012, "trainval"),
      coco_2017_val |-> [name |-> "coco_2017_val", evaluator_type |-> "coco"],
      ade20k_sem_seg_val |-> [name |-> "ade20k_sem_seg_val", evaluator_type |-> "sem_seg"],
      coco_2017_val_panoptic_separated |->
          [name |-> "coco_2017_val_panoptic_separated",
           evaluator_type |-> "coco_panoptic_seg"],
      cityscapes_fine_instance_seg_val |->
          [name |-> "cityscapes_fine_instance_seg_val",
           evaluator_type |-> "cityscapes_instance"],
      cityscapes_fine_sem_seg_val |->
          [name |-> "cityscapes_fine_sem_seg_val",
           evaluator_type |-> "cityscapes_sem_seg"],
      lvis_v1_val |-> [name |-> "lvis_v1_val", evaluator_type |-> "lvis"],
      cityscapes_fine_panoptic_val |->
          [name |-> "cityscapes_fine_panoptic_val",
           evaluator_type |-> "cityscapes_panoptic_seg"] ]

\* the annotation files on disk: path -> parsed JSON
FileSystem ==
    [ p \in { "./datasets/voc_objects_2007_trainval_coco_style.json",
              "./datasets/voc_objects_2007_test_coco_style.json",
              "./datasets/voc_objects_2012_trainval_coco_style.json",
              "./datasets/voc_objects_2012_test_coco_style.json",
              "./datasets/voc_2007_trainval_LOST_OD_clu20.json" }
      |-> [dataset |-> <<"records of", p>>, info |-> <<"info of", p>>] ]

\* default arguments of register_voc_in_coco_style (lines 49-51)
voc2007_trainval_json_path == "./datasets/voc_objects_2007_trainval_coco_style.json"
voc2007_test_json_path == "./datasets/voc_objects_2007_test_coco_style.json"
voc2012_trainval_json_path == "./datasets/voc_objects_2012_test_coco_style.json"

\* lines 53-56
voc2007_trainval_dataset_name == "voc_2007_trainval_coco_style"
voc2007_test_dataset_name == "voc_2007_test_coco_style"
voc2012_trainval_dataset_name == "voc_2012_trainval_coco_style"

\* default arguments of
\* register_clustered_LOST_pseudo_boxes_for_the_voc2007_trainval_dataset
voc2007_json_path == "./datasets/voc_2007_trainval_LOST_OD_clu20.json"
voc2007_dataset_name == "voc_2007_trainval_LOST_OD_clu20"

\* f with f[k] = v
Put(f, k, v) == [x \in DOMAIN f \cup {k} |-> IF x = k THEN v ELSE f[x]]

\* MetadataCatalog.get(name): the Metadata of name, created when absent
McGet(mc, name) == IF name \in DOMAIN mc THEN mc[name] ELSE [name |-> name]

\* MetadataCatalog.get(name).attr = value
McSet(mc, name, attr, value) == Put(mc, name, Put(McGet(mc, name), attr, value))

\* DatasetCatalog.register(name, func), func a closure over json_path
DcRegister(dc, name, json_path) == Put(dc, name, [json_path |-> json_path])

\* sets evaluator_type to the source dataset's, "pascal_voc"
SetCocoStyleMetadataVocEvaluator(mc, dataset_name, source_name) ==
    LET m1 == McSet(mc, dataset_name, "thing_classes", McGet(mc, source_name).thing_classes)
        m2 == McSet(m1, dataset_name, "evaluator_type", McGet(m1, source_name).evaluator_type)
        m3 == McSet(m2, dataset_name, "split", McGet(m2, source_name).split)
        m4 == McSet(m3, dataset_name, "year", McGet(m3, source_name).year)
    IN  McSet(m4, dataset_name, "name", dataset_name)

\* the five metadata assignments of one block of register_voc_in_coco_style
\* (lines 65-70, 79-84, 93-98)
SetCocoStyleMetadata(mc, dataset_name, source_name) ==
    LET m1 == McSet(mc, dataset_name, "thing_classes", McGet(mc, source_name).thing_classes)
        m2 == McSet(m1, dataset_name, "evaluator_type", "coco")
        m3 == McSet(m2, dataset_name, "split", McGet(m2, source_name).split)
        m4 == McSet(m3, dataset_name, "year", McGet(m3, source_name).year)
    IN  McSet(m4, dataset_name, "name", dataset_name)

\* the two metadata assignments of lines 112-114
SetLostMetadata(mc, dataset_name) ==
    LET m1 == McSet(mc, dataset_name, "thing_classes",
                    McGet(mc, "voc_2007_trainval").thing_classes)
    IN  McSet(m1, dataset_name, "evaluator_type", "coco")

RegInit ==
    /\ spc = "voc2007_trainval"
    /\ DatasetCatalog = [n \in {} |-> [json_path |-> ""]]
    /\ MetadataCatalog = BuiltinMetadata

\* lines 58-70
RegisterVoc2007Trainval ==
    /\ spc = "voc2007_trainval"
    /\ DatasetCatalog' = DcRegister(DatasetCatalog, voc2007_trainval_dataset_name,
                                    voc2007_trainval_json_path)
    /\ MetadataCatalog' = SetCocoStyleMetadata(MetadataCatalog,
                               voc2007_trainval_dataset_name, "voc_2007_trainval")
    /\ spc' = "voc2007_test"
    /\ UNCHANGED <<gmVars, useVars, mainVars>>

\* lines 72-84
RegisterVoc2007Test ==
    /\ spc = "voc2007_test"
    /\ DatasetCatalog' = DcRegister(DatasetCatalog, voc2007_test_dataset_name,
                                    voc2007_test_json_path)
    /\ MetadataCatalog' = SetCocoStyleMetadata(MetadataCatalog,
                               voc2007_test_dataset_name, "voc_2007_test")
    /\ spc' = "voc2012_trainval"
    /\ UNCHANGED <<gmVars, useVars, mainVars>>

\* lines 86-98
RegisterVoc2012Trainval ==
    /\ spc = "voc2012_trainval"
    /\ DatasetCatalog' = DcRegister(DatasetCatalog, voc2012_trainval_dataset_name,
                                    voc2012_trainval_json_path)
    /\ MetadataCatalog' = SetCocoStyleMetadata(MetadataCatalog,
                               voc2012_trainval_dataset_name, "voc_2012_trainval")
    /\ spc' = "LOST"
    /\ UNCHANGED <<gmVars, useVars, mainVars>>

\* lines 101-114, called at line 117
RegisterLostPseudoBoxes ==
    /\ spc = "LOST"
    /\ DatasetCatalog' = DcRegister(DatasetCatalog, voc2007_dataset_name, voc2007_json_path)
    /\ MetadataCatalog' = SetLostMetadata(MetadataCatalog, voc2007_dataset_name)
    /\ spc' = "loaded"
    /\ UNCHANGED <<gmVars, useVars, mainVars>>

\* a dataset function registered by the script is called (lines 59-62,
\* 73-76, 87-90, 106-109): the file is opened, parsed, and its "dataset"
\* entry returned
MaxOpens == 4

CallDatasetFunction ==
    /\ spc = "loaded"
    /\ Len(opened) < MaxOpens
    /\ \E name \in DOMAIN DatasetCatalog :
         LET path == DatasetCatalog[name].json_path
         IN  /\ opened' = Append(opened, path)
             /\ loaded' = [name |-> name,
                           value |-> IF path \in DOMAIN FileSystem
                                     THEN FileSystem[path].dataset
                                     ELSE <<"FileNotFoundError">>]
    /\ UNCHANGED <<gmVars, regVars, built, mainVars>>

\* ------------------------------------------------------------------------
\* tools/train_net_for_LOST_OD.py: Trainer
\* ------------------------------------------------------------------------

\* output_folder=None
NoFolder == <<>>

Evaluator(cls, dataset_name, output_dir) ==
    [cls |-> cls, dataset_name |-> dataset_name, output_dir |-> output_dir]

DatasetEvaluators(evaluator_list) ==
    [cls |-> "DatasetEvaluators", evaluators |-> evaluator_list]

\* the assertion of lines 168-170 and 173-175
CityscapesAssertion(e) == e.device_count >= e.rank

\* a single evaluator is wrapped like several
ReturnEvaluatorsAlwaysWrapped(dataset_name, evaluator_type, evaluator_list) ==
    IF Len(evaluator_list) = 0 THEN Raise("NotImplementedError")
    ELSE Ok(DatasetEvaluators(evaluator_list))

\* lines 181-189
ReturnEvaluators(dataset_name, evaluator_type, evaluator_list) ==
    IF Len(evaluator_list) = 0 THEN Raise("NotImplementedError")
    ELSE IF Len(evaluator_list) = 1 THEN Ok(evaluator_list[1])
    ELSE Ok(DatasetEvaluators(evaluator_list))

\* Trainer.build_evaluator (lines 143-189); e is the process it runs in
BuildEvaluator(mc, c, dataset_name, output_folder, e) ==
    LET folder == IF output_folder = NoFolder
                  THEN <<c.OUTPUT_DIR, "inference">> ELSE output_folder
        evaluator_type == McGet(mc, dataset_name).evaluator_type
        l1 == IF evaluator_type \in {"sem_seg", "coco_panoptic_seg"}
              THEN << Evaluator("SemSegEvaluator", dataset_name, folder) >> ELSE <<>>
        l2 == IF evaluator_type \in {"coco", "coco_panoptic_seg"}
              THEN Append(l1, Evaluator("COCOEvaluator", dataset_name, folder)) ELSE l1
        l3 == IF evaluator_type = "coco_panoptic_seg"
              THEN Append(l2, Evaluator("COCOPanopticEvaluator", dataset_name, folder))
              ELSE l2
    IN  IF evaluator_type = "cityscapes_instance"
        THEN IF CityscapesAssertion(e)
             THEN Ok(Evaluator("CityscapesInstanceEvaluator", dataset_name, NoFolder))
             ELSE Raise("AssertionError")
        ELSE IF evaluator_type = "cityscapes_sem_seg"
        THEN IF CityscapesAssertion(e)
             THEN Ok(Evaluator("CityscapesSemSegEvaluator", dataset_name, NoFolder))
             ELSE Raise("AssertionError")
        ELSE IF evaluator_type = "pascal_voc"
        THEN Ok(Evaluator("PascalVOCDetectionEvaluator", dataset_name, NoFolder))
        ELSE IF evaluator_type = "lvis"
        THEN Ok(Evaluator("LVISEvaluator", dataset_name, folder))
        ELSE ReturnEvaluators(dataset_name, evaluator_type, l3)

MaxGpus == 2
MaxRank == 3

\* the processes a launch can create: GPUs visible on the machine, global rank
Envs == [device_count : 0..MaxGpus, rank : 0..MaxRank]

\* cfg.OUTPUT_DIR of detectron2's default config
DefaultOutputDir == "./output"

UseInit ==
    /\ opened = <<>>
    /\ loaded = [name |-> None]
    /\ built = [dataset_name |-> None]

\* Trainer.build_evaluator is called on a dataset of the catalog
CallBuildEvaluator ==
    /\ spc = "loaded"
    /\ \E dataset_name \in DOMAIN MetadataCatalog,
          output_folder \in {NoFolder, <<"./eval_out">>},
          e \in Envs :
         built' = [dataset_name |-> dataset_name, output_folder |-> output_folder,
                   env |-> e,
                   outcome |-> BuildEvaluator(MetadataCatalog,
                                              [OUTPUT_DIR |-> DefaultOutputDir],
                                              dataset_name, output_folder, e)]
    /\ UNCHANGED <<gmVars, regVars, opened, loaded, mainVars>>

\* the result keys of an evaluation (COCO-style tasks)
ResultKeys == { <<"bbox">>, <<"segm">> }

\* Trainer.test(cfg, model, evaluators): some non-empty dict of results,
\* each value produced by the run `run`
TestResults(run) ==
    { [k \in K |-> [run |-> run, task |-> k]] : K \in (SUBSET ResultKeys) \ {{}} }

\* dict.update
Update(d, other) ==
    [k \in DOMAIN d \cup DOMAIN other |-> IF k \in DOMAIN other THEN other[k] ELSE d[k]]

\* the renamed results replace the dict under the original keys too
SuffixTTAKeepsKeys(r) ==
    [k \in DOMAIN r \cup {x \o <<"_TTA">> : x \in DOMAIN r}
       |-> IF k \in DOMAIN r THEN r[k] ELSE r[ButLast(1, k)]]

\* line 205: {k + "_TTA": v for k, v in res.items()}
SuffixTTA(r) ==
    [k \in {x \o <<"_TTA">> : x \in DOMAIN r} |-> r[ButLast(1, k)]]

\* lines 198-203: one build_evaluator call per name of cfg.DATASETS.TEST
TtaEvaluatorOutcomes(mc, c, e) ==
    [i \in DOMAIN c.DATASETS_TEST |->
        BuildEvaluator(mc, c, c.DATASETS_TEST[i], <<c.OUTPUT_DIR, "inference_TTA">>, e)]

\* ------------------------------------------------------------------------
\* tools/train_net_for_LOST_OD.py: main
\* ------------------------------------------------------------------------

MaxTestSets == 2

\* the datasets a config of this script evaluates on
TestPool == { "voc_2007_test_coco_style", "voc_2007_trainval_LOST_OD_clu20",
              "voc_2007_test" }

Cfgs ==
    [ AUG_ENABLED : BOOLEAN,
      DATASETS_TEST : UNION { [1..n -> TestPool] : n \in 1..MaxTestSets },
      OUTPUT_DIR : {DefaultOutputDir},
      WEIGHTS : {"./weights.pkl"} ]

Args == [eval_only : BOOLEAN, resume : BOOLEAN]

\* the processes main is followed in: the main process and one other
MainEnvs == { e \in Envs : e.device_count = 1 /\ e.rank <= 1 }

\* every process takes itself for the main one
IsMainProcessAlways(e) == e.rank >= 0

\* comm.is_main_process()
IsMainProcess(e) == e.rank = 0

MainInit ==
    /\ mpc = "idle"
    /\ args = [eval_only |-> FALSE, resume |-> FALSE]
    /\ cfg = [AUG_ENABLED |-> FALSE]
    /\ env = [device_count |-> 0, rank |-> 0]
    /\ res = <<>>
    /\ plainRes = <<>>
    /\ ttaRes = <<>>
    /\ ttaEvaluators = <<>>
    /\ trace = <<>>
    /\ hooks = <<>>

Call(op) == [op |-> op]

\* launch(main, ...) after the module is loaded; line 222 and the test of
\* line 224
MainSetup ==
    /\ spc = "loaded"
    /\ mpc = "idle"
    /\ \E a \in Args, c \in Cfgs, e \in MainEnvs :
         /\ args' = a
         /\ cfg' = c
         /\ env' = e
         /\ mpc' = IF a.eval_only THEN "build_model" ELSE "trainer"
    /\ trace' = Append(trace, Call("setup"))
    /\ UNCHANGED <<gmVars, regVars, useVars, res, plainRes, ttaRes, ttaEvaluators, hooks>>

\* line 225
MainBuildModel ==
    /\ mpc = "build_model"
    /\ trace' = Append(trace, Call("Trainer.build_model"))
    /\ mpc' = "load"
    /\ UNCHANGED <<gmVars, regVars, useVars, args, cfg, env, res, plainRes, ttaRes,
                   ttaEvaluators, hooks>>

\* lines 226-228
MainLoadCheckpoint ==
    /\ mpc = "load"
    /\ trace' = Append(trace, [op |-> "DetectionCheckpointer.resume_or_load",
                               path |-> cfg.WEIGHTS, resume |-> args.resume])
    /\ mpc' = "test"
    /\ UNCHANGED <<gmVars, regVars, useVars, args, cfg, env, res, plainRes, ttaRes,
                   ttaEvaluators, hooks>>

\* line 229
MainTest ==
    /\ mpc = "test"
    /\ \E r \in TestResults("plain") :
         /\ res' = r
         /\ plainRes' = r
    /\ trace' = Append(trace, Call("Trainer.test"))
    /\ mpc' = "tta"
    /\ UNCHANGED <<gmVars, regVars, useVars, args, cfg, env, ttaRes, ttaEvaluators, hooks>>

\* lines 230-231, with Trainer.test_with_TTA (lines 191-206)
MainTTA ==
    /\ mpc = "tta"
    /\ IF cfg.AUG_ENABLED
       THEN LET outcomes == TtaEvaluatorOutcomes(MetadataCatalog, cfg, env)
            IN  IF \A i \in DOMAIN outcomes : outcomes[i].ok
                THEN /\ ttaEvaluators' = [i \in DOMAIN outcomes |-> outcomes[i].value]
                     /\ \E r \in TestResults("TTA") :
                          /\ ttaRes' = r
                          /\ res' = Update(res, SuffixTTA(r))
                     /\ trace' = Append(trace, Call("Trainer.test_with_TTA"))
                     /\ mpc' = "verify"
                ELSE /\ mpc' = "raised"
                     /\ trace' = Append(trace, Call("Trainer.test_with_TTA"))
                     /\ UNCHANGED <<ttaEvaluators, ttaRes, res>>
       ELSE /\ mpc' = "verify"
            /\ UNCHANGED <<ttaEvaluators, ttaRes, res, trace>>
    /\ UNCHANGED <<gmVars, regVars, useVars, args, cfg, env, plainRes, hooks>>

\* lines 232-233
MainVerify ==
    /\ mpc = "verify"
    /\ trace' = IF IsMainProcess(env)
                THEN Append(trace, [op |-> "verify_results", results |-> res])
                ELSE trace
    /\ mpc' = "return_res"
    /\ UNCHANGED <<gmVars, regVars, useVars, args, cfg, env, res, plainRes, ttaRes,
                   ttaEvaluators, hooks>>

\* line 234
MainReturnRes ==
    /\ mpc = "return_res"
    /\ trace' = Append(trace, [op |-> "return", value |-> res])
    /\ mpc' = "returned"
    /\ UNCHANGED <<gmVars, regVars, useVars, args, cfg, env, res, plainRes, ttaRes,
                   ttaEvaluators, hooks>>

\* line 241
MainTrainer ==
    /\ mpc = "trainer"
    /\ trace' = Append(trace, Call("Trainer()"))
    /\ mpc' = "resume"
    /\ UNCHANGED <<gmVars, regVars, useVars, args, cfg, env, res, plainRes, ttaRes,
                   ttaEvaluators, hooks>>

\* line 242
MainResumeOrLoad ==
    /\ mpc = "resume"
    /\ trace' = Append(trace, [op |-> "trainer.resume_or_load", resume |-> args.resume])
    /\ mpc' = "hooks"
    /\ UNCHANGED <<gmVars, regVars, useVars, args, cfg, env, res, plainRes, ttaRes,
                   ttaEvaluators, hooks>>

\* lines 243-246
MainRegisterHooks ==
    /\ mpc = "hooks"
    /\ IF cfg.AUG_ENABLED
       THEN /\ hooks' = Append(hooks, [hook |-> "EvalHook", period |-> 0,
                                       function |-> "test_with_TTA"])
            /\ trace' = Append(trace, Call("trainer.register_hooks"))
       ELSE UNCHANGED <<hooks, trace>>
    /\ mpc' = "train"
    /\ UNCHANGED <<gmVars, regVars, useVars, args, cfg, env, res, plainRes, ttaRes,
                   ttaEvaluators>>

\* line 247: trainer.train() runs the training loop and then the after_train
\* step of the registered hooks; an EvalHook of period 0 evaluates there
MainTrain ==
    /\ mpc = "train"
    /\ \E r \in TestResults("train") : res' = r
    /\ IF \E i \in DOMAIN hooks : hooks[i].function = "test_with_TTA"
       THEN LET outcomes == TtaEvaluatorOutcomes(MetadataCatalog, cfg, env)
            IN  IF \A i \in DOMAIN outcomes : outcomes[i].ok
                THEN /\ ttaEvaluators' = [i \in DOMAIN outcomes |-> outcomes[i].value]
                     /\ \E r \in TestResults("TTA") : ttaRes' = r
                     /\ trace' = trace \o << Call("trainer.train"),
                                             Call("Trainer.test_with_TTA"),
                                             [op |-> "return", value |-> res'] >>
                     /\ mpc' = "returned"
                ELSE /\ mpc' = "raised"
                     /\ trace' = trace \o << Call("trainer.train"),
                                             Call("Trainer.test_with_TTA") >>
                     /\ UNCHANGED <<ttaEvaluators, ttaRes>>
       ELSE /\ trace' = trace \o << Call("trainer.train"),
                                    [op |-> "return", value |-> res'] >>
            /\ mpc' = "returned"
            /\ UNCHANGED <<ttaEvaluators, ttaRes>>
    /\ UNCHANGED <<gmVars, regVars, useVars, args, cfg, env, plainRes, hooks>>

\* ------------------------------------------------------------------------
\* Specifications
\* ------------------------------------------------------------------------

vars == <<gmVars, regVars, useVars, mainVars>>

\* no get_model call is running
GmIdle ==
    /\ gmArgs = [arch |-> <<>>]
    /\ gmPc = "idle"
    /\ model = NoModel
    /\ original = NoModel
    /\ key_ = <<>>
    /\ prefix = None
    /\ loadCalls = <<>>
    /\ exc = None

\* get_model called with any arguments
InitNet == GmInit /\ RegInit /\ UseInit /\ MainInit

SpecNet == InitNet /\ [][GmNext]_vars

\* the script module is loaded by the interpreter ...
InitScript == GmIdle /\ RegInit /\ UseInit /\ MainInit

RegNext ==
    \/ RegisterVoc2007Trainval
    \/ RegisterVoc2007Test
    \/ RegisterVoc2012Trainval
    \/ RegisterLostPseudoBoxes

\* ... then the registered dataset functions are called
DataNext == RegNext \/ CallDatasetFunction

SpecData == InitScript /\ [][DataNext]_vars

\* ... then Trainer.build_evaluator is called
EvalNext == RegNext \/ CallBuildEvaluator

SpecEval == InitScript /\ [][EvalNext]_vars

\* ... then main runs
MainNext ==
    \/ RegNext
    \/ MainSetup
    \/ MainBuildModel
    \/ MainLoadCheckpoint
    \/ MainTest
    \/ MainTTA
    \/ MainVerify
    \/ MainReturnRes
    \/ MainTrainer
    \/ MainResumeOrLoad
    \/ MainRegisterHooks
    \/ MainTrain

SpecMain == InitScript /\ [][MainNext]_vars

\* ------------------------------------------------------------------------
\* Properties of get_model
\* ------------------------------------------------------------------------

\* the call has ended
GmDone == gmPc \in {"returned", "raised"}

\* lines 10-34 produced a network
GmBuilt == original # NoModel

\* C1: for an arch containing "resnet" and resnet_dilate in {1,2,4}, the
\* returned model's feature sequence is the children of the original
\* resnet50 in order minus the last two (avgpool, fc), and is not empty.
C1_ResNetHeadRemovedOnce ==
    (/\ gmPc = "returned"
     /\ In("resnet", gmArgs.arch)
     /\ gmArgs.resnet_dilate \in {1, 2, 4})
    => /\ model.name = "ResNet50Bottom"
       /\ Len(model.children) = 1
       /\ ChildNames(model.children[1]) = ButLast(2, ChildNames(original))
       /\ Len(model.children[1].children) > 0

\* C2: for an arch containing "vgg16", get_model does not raise, and the
\* returned feature sequence is the VGG16 feature layers in order without
\* the last max-pool (avgpool and classifier removed).
C2_Vgg16ReturnsTruncated ==
    (In("vgg16", gmArgs.arch) /\ ~In("resnet", gmArgs.arch))
    => /\ gmPc # "raised"
       /\ gmPc = "returned" =>
             /\ model.name = "vgg16Bottom"
             /\ Len(model.children) = 1
             /\ ChildNames(model.children[1])
                  = ButLast(1, ChildNames(original.children[1]))

\* C3: once the freeze loop has run, every parameter reachable from `model`
\* has requires_grad = False at every later step (cuda, wrapping, weight
\* loading, truncation), and the returned model is in eval mode.
C3_FrozenFeatureExtractor ==
    /\ gmPc \in {"prefix", "wrap", "load", "truncate", "eval", "returned"}
          => AllFrozen(model)
    /\ (gmPc = "raised" /\ GmBuilt) => AllFrozen(model)
    /\ gmPc = "returned" => AllEval(model)

\* a ViT was returned after weight loading: it has parameters, all frozen
C3_Witness ==
    /\ gmPc = "returned"
    /\ gmArgs.arch = <<"vit_small">>
    /\ Len(loadCalls) = 1
    /\ NumParams(model, Len(model.children)) > 0

\* the checkpoint key and prefix the claim C8 gives for the arguments
C8_Expected(pretrained_weights, key) ==
    IF In("soco", pretrained_weights) \/ In("pixpro", pretrained_weights)
    THEN <<(<<"model">>), "module.encoder.">>
    ELSE IF In("mae", pretrained_weights)
    THEN <<(<<"model">>), None>>
    ELSE <<key, IF In("student", key) THEN "module.backbone." ELSE "backbone.">>

\* the calls recorded are the ones C8 gives for the arguments
C8_CallsAsClaimed ==
    IF In("imagenet", gmArgs.arch)
    THEN loadCalls = <<>>
    ELSE /\ Len(loadCalls) = 1
         /\ <<loadCalls[1].key, loadCalls[1].prefix>>
              = C8_Expected(gmArgs.pretrained_weights, gmArgs.key)
         /\ loadCalls[1].pretrained_weights = gmArgs.pretrained_weights

\* C8 as stated: whenever get_model has ended, load_pretrained_weights was
\* called exactly once if "imagenet" is not in arch and never otherwise,
\* with the key and prefix fixed by pretrained_weights and key.
C8_LoadOnceUnlessImagenet == GmDone => C8_CallsAsClaimed

\* C8 amended: the same, for the calls in which lines 10-34 constructed a
\* network; and load_pretrained_weights is never called more than once.
C8_LoadOnceWhenBuilt ==
    /\ Len(loadCalls) <= 1
    /\ (GmDone /\ GmBuilt) => C8_CallsAsClaimed
    /\ (GmDone /\ ~GmBuilt) => loadCalls = <<>>

\* "soco" and "mae" both occur in pretrained_weights and the call was made
C8_Witness ==
    /\ gmPc = "returned"
    /\ In("soco", gmArgs.pretrained_weights)
    /\ In("mae", gmArgs.pretrained_weights)
    /\ Len(loadCalls) = 1

\* the replace_stride_with_dilation of the constructed resnet50
DilationOf(m) == << m.children[6].opt.dilate, m.children[7].opt.dilate,
                    m.children[8].opt.dilate >>

\* C9: for a resnet arch, resnet_dilate 1, 2, 4 give [F,F,F], [F,F,T],
\* [F,T,T]; any other value raises before a model is constructed; for an
\* arch without "resnet" the outcome is the same for every resnet_dilate.
C9_DilationMapping ==
    /\ (In("resnet", gmArgs.arch) /\ GmBuilt) =>
          \/ gmArgs.resnet_dilate = 1 /\ DilationOf(original) = <<FALSE, FALSE, FALSE>>
          \/ gmArgs.resnet_dilate = 2 /\ DilationOf(original) = <<FALSE, FALSE, TRUE>>
          \/ gmArgs.resnet_dilate = 4 /\ DilationOf(original) = <<FALSE, TRUE, TRUE>>
    /\ (In("resnet", gmArgs.arch) /\ gmArgs.resnet_dilate \notin {1, 2, 4}) =>
          /\ gmPc \in {"build", "raised"}
          /\ model = NoModel /\ original = NoModel /\ loadCalls = <<>>
          /\ gmPc = "raised" => exc = "UnboundLocalError"
    /\ (~In("resnet", gmArgs.arch) /\ GmDone) =>
          \A d \in Dilates :
              GetModel(gmArgs.arch, gmArgs.patch_size, d,
                       gmArgs.pretrained_weights, gmArgs.key)
                = [pc |-> gmPc, exc |-> exc, model |-> model, calls |-> loadCalls]

\* a dilated resnet was returned
C9_Witness ==
    /\ gmPc = "returned"
    /\ In("resnet", gmArgs.arch)
    /\ gmArgs.resnet_dilate = 4
    /\ DilationOf(original) = <<FALSE, TRUE, TRUE>>

\* an unsupported resnet_dilate ended the call
C9_WitnessUnsupported ==
    /\ gmPc = "raised"
    /\ In("resnet", gmArgs.arch)
    /\ gmArgs.resnet_dilate = 3

\* ------------------------------------------------------------------------
\* Properties of the training script
\* ------------------------------------------------------------------------

\* the datasets the script registers, with the built-in dataset each copies
\* its class names from
ScriptDatasets ==
    [ voc_2007_trainval_coco_style |-> "voc_2007_trainval",
      voc_2007_test_coco_style |-> "voc_2007_test",
      voc_2012_trainval_coco_style |-> "voc_2012_trainval",
      voc_2007_trainval_LOST_OD_clu20 |-> "voc_2007_trainval" ]

BuildCalled == built.dataset_name # None

\* the folder build_evaluator works with in the recorded call
BuiltFolder ==
    IF built.output_folder = NoFolder
    THEN <<DefaultOutputDir, "inference">> ELSE built.output_folder

\* what C5 gives for an evaluator_type; cityscapes_ok says whether the
\* cityscapes types yield their evaluator
C5_Expected(evaluator_type, name, folder, cityscapes_ok) ==
    CASE evaluator_type = "sem_seg" -> Ok(Evaluator("SemSegEvaluator", name, folder))
      [] evaluator_type = "coco" -> Ok(Evaluator("COCOEvaluator", name, folder))
      [] evaluator_type = "coco_panoptic_seg" ->
            Ok(DatasetEvaluators(<< Evaluator("SemSegEvaluator", name, folder),
                                    Evaluator("COCOEvaluator", name, folder),
                                    Evaluator("COCOPanopticEvaluator", name, folder) >>))
      [] evaluator_type = "cityscapes_instance" ->
            IF cityscapes_ok
            THEN Ok(Evaluator("CityscapesInstanceEvaluator", name, NoFolder))
            ELSE Raise("AssertionError")
      [] evaluator_type = "cityscapes_sem_seg" ->
            IF cityscapes_ok
            THEN Ok(Evaluator("CityscapesSemSegEvaluator", name, NoFolder))
            ELSE Raise("AssertionError")
      [] evaluator_type = "pascal_voc" ->
            Ok(Evaluator("PascalVOCDetectionEvaluator", name, NoFolder))
      [] evaluator_type = "lvis" -> Ok(Evaluator("LVISEvaluator", name, folder))
      [] OTHER -> Raise("NotImplementedError")

\* C5 as stated: the outcome of build_evaluator is fixed by evaluator_type
\* alone; in particular the cityscapes types give their evaluator.
C5_OutcomeByTypeAlone ==
    BuildCalled =>
        built.outcome = C5_Expected(MetadataCatalog[built.dataset_name].evaluator_type,
                                    built.dataset_name, BuiltFolder, TRUE)

\* C5 amended: the outcome is fixed by evaluator_type, except that the two
\* cityscapes types give their evaluator only when
\* torch.cuda.device_count() >= comm.get_rank() and raise AssertionError
\* otherwise; a composite is never empty and never wraps a single evaluator.
C5_OutcomeByTypeAndAssertion ==
    BuildCalled =>
        /\ built.outcome
             = C5_Expected(MetadataCatalog[built.dataset_name].evaluator_type,
                           built.dataset_name, BuiltFolder,
                           built.env.device_count >= built.env.rank)
        /\ (built.outcome.ok /\ built.outcome.value.cls = "DatasetEvaluators")
             => Len(built.outcome.value.evaluators) >= 2

\* a panoptic dataset got its composite of three
C5_Witness ==
    /\ BuildCalled
    /\ MetadataCatalog[built.dataset_name].evaluator_type = "coco_panoptic_seg"
    /\ built.outcome.ok
    /\ Len(built.outcome.value.evaluators) = 3

\* C6: once the module is loaded, exactly the four datasets are registered,
\* each with evaluator_type "coco" and the thing_classes of the built-in VOC
\* dataset of its year and split; build_evaluator on any of them returns a
\* single COCOEvaluator, writing to cfg.OUTPUT_DIR/inference by default.
C6_RegisteredDatasetsUseCoco ==
    /\ DOMAIN DatasetCatalog \subseteq DOMAIN ScriptDatasets
    /\ spc = "loaded" =>
         /\ DOMAIN DatasetCatalog = DOMAIN ScriptDatasets
         /\ \A n \in DOMAIN ScriptDatasets :
              /\ MetadataCatalog[n].evaluator_type = "coco"
              /\ MetadataCatalog[n].thing_classes
                   = BuiltinMetadata[ScriptDatasets[n]].thing_classes
    /\ (BuildCalled /\ built.dataset_name \in DOMAIN ScriptDatasets) =>
         /\ built.outcome.ok
         /\ built.outcome.value.cls = "COCOEvaluator"
         /\ built.outcome.value.dataset_name = built.dataset_name
         /\ built.outcome.value.output_dir
              = IF built.output_folder = NoFolder
                THEN <<DefaultOutputDir, "inference">> ELSE built.output_folder

\* build_evaluator ran on the LOST pseudo-box dataset without output_folder
C6_Witness ==
    /\ BuildCalled
    /\ built.dataset_name = "voc_2007_trainval_LOST_OD_clu20"
    /\ built.output_folder = NoFolder
    /\ built.outcome.ok

\* year and split of the COCO-style VOC datasets
CocoStyleDatasets ==
    [ voc_2007_trainval_coco_style |->
          [source |-> "voc_2007_trainval",
           json |-> "./datasets/voc_objects_2007_trainval_coco_style.json"],
      voc_2007_test_coco_style |->
          [source |-> "voc_2007_test",
           json |-> "./datasets/voc_objects_2007_test_coco_style.json"],
      voc_2012_trainval_coco_style |->
          [source |-> "voc_2012_trainval",
           json |-> "./datasets/voc_objects_2012_trainval_coco_style.json"] ]

\* C10: with the default arguments each voc_<year>_<split>_coco_style is
\* read from ./datasets/voc_objects_<year>_<split>_coco_style.json and has
\* the thing_classes, split and year of voc_<year>_<split>; no file is
\* opened before a dataset function is called, and the call returns the
\* "dataset" entry of that file.
C10_SameYearAndSplit ==
    /\ \A n \in DOMAIN CocoStyleDatasets \cap DOMAIN DatasetCatalog :
         /\ DatasetCatalog[n].json_path = CocoStyleDatasets[n].json
         /\ MetadataCatalog[n].thing_classes
              = BuiltinMetadata[CocoStyleDatasets[n].source].thing_classes
         /\ MetadataCatalog[n].split = BuiltinMetadata[CocoStyleDatasets[n].source].split
         /\ MetadataCatalog[n].year = BuiltinMetadata[CocoStyleDatasets[n].source].year
    /\ loaded.name = None => opened = <<>>
    /\ (loaded.name # None /\ loaded.name \in DOMAIN CocoStyleDatasets) =>
         /\ opened[Len(opened)] = CocoStyleDatasets[loaded.name].json
         /\ loaded.value = FileSystem[CocoStyleDatasets[loaded.name].json].dataset

\* the calls main made, by name
Ops == [i \in DOMAIN trace |-> trace[i].op]

Called(op) == \E i \in DOMAIN trace : Ops[i] = op

\* every call of `later` in the trace comes after a call of `earlier`
After(earlier, later) ==
    \A i \in DOMAIN trace :
        Ops[i] = later => \E j \in 1..(i - 1) : Ops[j] = earlier

MainStarted == mpc # "idle"

\* C4: in eval-only mode main builds the model, loads cfg.MODEL.WEIGHTS
\* before Trainer.test, calls verify_results only in the main process and
\* only after the plain and TTA results are collected, returns the results,
\* and neither constructs a Trainer nor trains; otherwise it calls
\* trainer.resume_or_load before trainer.train, returns train's result and
\* never calls verify_results.
C4_EvalOrTrain ==
    /\ (MainStarted /\ args.eval_only) =>
         /\ ~Called("Trainer()") /\ ~Called("trainer.train")
         /\ ~Called("trainer.resume_or_load") /\ ~Called("trainer.register_hooks")
         /\ After("Trainer.build_model", "DetectionCheckpointer.resume_or_load")
         /\ After("DetectionCheckpointer.resume_or_load", "Trainer.test")
         /\ \A i \in DOMAIN trace :
              Ops[i] = "DetectionCheckpointer.resume_or_load" =>
                  trace[i].path = cfg.WEIGHTS /\ trace[i].resume = args.resume
         /\ After("Trainer.test", "verify_results")
         /\ cfg.AUG_ENABLED => After("Trainer.test_with_TTA", "verify_results")
         /\ \A i \in DOMAIN trace :
              Ops[i] = "verify_results" =>
                  /\ env.rank = 0
                  /\ trace[i].results = res
                  /\ DOMAIN plainRes \subseteq DOMAIN trace[i].results
         /\ mpc = "returned" =>
              /\ trace[Len(trace)] = [op |-> "return", value |-> res]
              /\ Called("Trainer.test")
              /\ env.rank = 0 => Called("verify_results")
    /\ (MainStarted /\ ~args.eval_only) =>
         /\ ~Called("verify_results") /\ ~Called("Trainer.test")
         /\ ~Called("Trainer.build_model")
         /\ ~Called("DetectionCheckpointer.resume_or_load")
         /\ After("Trainer()", "trainer.resume_or_load")
         /\ After("trainer.resume_or_load", "trainer.train")
         /\ mpc = "returned" =>
              /\ trace[Len(trace)] = [op |-> "return", value |-> res]
              /\ Called("trainer.train")
              /\ \A k \in DOMAIN res : res[k].run = "train"

\* an evaluation with TTA ended in the main process
C4_Witness ==
    /\ mpc = "returned"
    /\ args.eval_only
    /\ cfg.AUG_ENABLED
    /\ env.rank = 0
    /\ Called("verify_results")

\* k ends in "_TTA"
EndsInTTA(k) == Len(k) > 0 /\ k[Len(k)] = "_TTA"

\* C7: TTA evaluation runs iff cfg.TEST.AUG.ENABLED.  Eval-only: the result
\* keeps every plain entry and has ttaRun[k] under k + "_TTA" for each key
\* of the TTA run, and nothing else; no "_TTA" key without TTA.
\* test_with_TTA builds one evaluator per name of cfg.DATASETS.TEST, in
\* order, on OUTPUT_DIR/inference_TTA.  Training: the hook is registered
\* before train() iff enabled and TTA runs after training.
C7_TTAIffEnabled ==
    /\ Called("Trainer.test_with_TTA") => cfg.AUG_ENABLED
    /\ (mpc = "returned" /\ cfg.AUG_ENABLED) => Called("Trainer.test_with_TTA")
    /\ (mpc = "returned" /\ args.eval_only) =>
         /\ \A k \in DOMAIN plainRes : k \in DOMAIN res /\ res[k] = plainRes[k]
         /\ IF cfg.AUG_ENABLED
            THEN /\ \A k \in DOMAIN ttaRes :
                       /\ (k \o <<"_TTA">>) \in DOMAIN res
                       /\ res[k \o <<"_TTA">>] = ttaRes[k]
                 /\ DOMAIN res = DOMAIN plainRes
                                   \cup {k \o <<"_TTA">> : k \in DOMAIN ttaRes}
            ELSE /\ res = plainRes
                 /\ \A k \in DOMAIN res : ~EndsInTTA(k)
    /\ Called("Trainer.test_with_TTA") /\ mpc # "raised" =>
         /\ Len(ttaEvaluators) = Len(cfg.DATASETS_TEST)
         /\ \A i \in DOMAIN ttaEvaluators :
              /\ ttaEvaluators[i].dataset_name = cfg.DATASETS_TEST[i]
              /\ ttaEvaluators[i].cls = "COCOEvaluator" =>
                    ttaEvaluators[i].output_dir = <<cfg.OUTPUT_DIR, "inference_TTA">>
              /\ MetadataCatalog[cfg.DATASETS_TEST[i]].evaluator_type = "coco" =>
                    ttaEvaluators[i].cls = "COCOEvaluator"
    /\ ~Called("Trainer.test_with_TTA") => ttaEvaluators = <<>>
    /\ (MainStarted /\ ~args.eval_only) =>
         /\ mpc \in {"train", "returned"} => (hooks # <<>> <=> cfg.AUG_ENABLED)
         /\ ~cfg.AUG_ENABLED => hooks = <<>>
         /\ cfg.AUG_ENABLED => After("trainer.register_hooks", "trainer.train")
         /\ After("trainer.train", "Trainer.test_with_TTA")
         /\ \A i \in DOMAIN hooks : hooks[i].period = 0

\* eval-only with TTA on two datasets, a key shared by both runs
C7_Witness ==
    /\ mpc = "returned"
    /\ args.eval_only
    /\ cfg.AUG_ENABLED
    /\ Len(cfg.DATASETS_TEST) = 2
    /\ DOMAIN plainRes \cap DOMAIN ttaRes # {}

====
